---- MODULE Spec2Model ----
(***************************************************************************)
(* Word-level adaptive Huffman codec (src/encoder.py).                     *)
(*                                                                         *)
(* Three codec instances are modelled: "enc" only encodes and its payloads *)
(* are decoded, in order, by "dec"; "any" takes arbitrary encode and       *)
(* decode calls, from its own thread and from a second thread "any2".      *)
(* One step of the model is one token of a message or one                  *)
(* iteration of the loop of _increment_weight, so that a loop of the code  *)
(* that never ends is a cycle of the state graph.                          *)
(*                                                                         *)
(* The chat transport (src/server.py, src/client.py) is modelled at the    *)
(* level of messages: one step is one frame written, read and decoded, or  *)
(* broadcast, and a call of encode or decode is one function of the tree.  *)
(*                                                                         *)
(* Notation: "\E x \in {e} : F" and "CHOOSE r \in {G(x) : x \in {e}} : TRUE" *)
(* are "LET x == e IN ..." with e evaluated once, before F or G.           *)
(***************************************************************************)
EXTENDS Integers, Sequences, FiniteSets, TLC

\* ------------------------------------------------------------------ bounds
\* number of encode/decode calls started on one instance
MaxCalls == 3

\* number of calls made on a writer used on its own
MaxOps == 3

\* the calls made on a writer used on its own
BitOps ==
  {[kind |-> "bit", val |-> b] : b \in {0, 1}}
    \cup {[kind |-> "bits", val |-> v] : v \in {<<>>, <<1, 0, 1>>}}
    \cup {[kind |-> "uint16", val |-> v] : v \in {5, 258, 65535}}
    \cup {[kind |-> "bytes", val |-> v] : v \in {<<>>, <<97>>, <<255, 0>>}}

\* a text element that stands for 2 ** 16 letters "a" in a row
LongRun == "a * 65536"

\* the texts handed to encode(): tuples of one-character strings
Texts ==
  { <<>>, <<"a">>, <<"b">>, <<"a", "l", "p", "h", "a">>, <<"a", " ", "b">>,
    <<"a", " ", LongRun>> }

\* the byte strings handed to decode() on the instance "any"
RawInputs ==
  { <<>>, <<0>>, <<128, 0, 1, 97>>, <<128, 0, 1, 98>>, <<128, 0, 1>>,
    <<128, 0, 1, 255>>, <<128>> }

\* the frames written to the server by all its peers together
MaxFrames == 2

\* the connections the server accepts, numbered in the order of accept()
Conns == {1, 2, 3}

\* the messages a peer of the server hands to its encoder
ChatTexts == { <<"a">>, <<"b">> }

\* the payloads a peer writes that no encoder produced
ChatRaw == { <<128>> }

\* username and the lines typed at the prompt of the client
Username == <<"a">>
Lines == { <<"b">> }

\* ------------------------------------------------------- program constants
\* len(raw) >= 2 ** 16 is rejected by _encode_word
WordLimit == 65536

Instances == {"enc", "dec", "any"}

\* the threads that call encode and decode: one of its own for every
\* instance, and a second one that shares the instance "any"
Threads == Instances \cup {"any2"}

InstanceOf(th) == IF th = "any2" THEN "any" ELSE th

\* Optional[...] = None
None == 0
NoSymbol == <<"None">>

\* ----------------------------------------------------- str.encode / decode
\* code points of the characters the model uses
Ord(c) ==
  CASE c = "a" -> 97
    [] c = "b" -> 98
    [] c = "c" -> 99
    [] c = "h" -> 104
    [] c = "l" -> 108
    [] c = "p" -> 112
    [] c = " " -> 32
    [] c = ":" -> 58

Alphabet == {"a", "b", "c", "h", "l", "p", " ", ":"}

\* the bytes of LongRun
LongRunBytes == [k \in 1..WordLimit |-> 97]

\* word.encode(): UTF-8 of an ASCII string, one byte per character
RECURSIVE StrEncode(_)
StrEncode(word) ==
  IF word = <<>> THEN <<>>
  ELSE (IF Head(word) = LongRun THEN LongRunBytes ELSE <<Ord(Head(word))>>)
         \o StrEncode(Tail(word))

\* the character of a byte; bytes outside the model's alphabet that are
\* ASCII decode to a character the model does not name
Chr(b) ==
  IF \E c \in Alphabet : Ord(c) = b
    THEN CHOOSE c \in Alphabet : Ord(c) = b
    ELSE "?"

\* raw.decode() raises UnicodeDecodeError on a byte that is not valid UTF-8;
\* the model's inputs hold single bytes only, so every byte >= 128 is invalid
StrDecodeOk(raw) == \A k \in 1..Len(raw) : raw[k] < 128

StrDecode(raw) == [k \in 1..Len(raw) |-> Chr(raw[k])]

\* ---------------------------------------------------------------- _BitWriter
NewWriter == [buffer |-> <<>>, current |-> 0, filled |-> 0]

add_bit(w, bit) ==
  LET cur == w.current * 2 + bit
  IN IF w.filled + 1 = 8
       THEN [buffer |-> Append(w.buffer, cur), current |-> 0, filled |-> 0]
       ELSE [buffer |-> w.buffer, current |-> cur, filled |-> w.filled + 1]

RECURSIVE add_bits(_, _)
add_bits(w, bits) ==
  IF bits = <<>> THEN w
  ELSE CHOOSE r \in {add_bits(w1, Tail(bits)) : w1 \in {add_bit(w, Head(bits))}} : TRUE

\* mutant of flush_to_byte: the byte in progress is flushed as it is
flush_to_byteUnshifted(w) ==
  IF w.filled = 0
    THEN w
    ELSE [buffer |-> Append(w.buffer, w.current), current |-> 0, filled |-> 0]

flush_to_byte(w) ==
  IF w.filled = 0
    THEN w
    ELSE [buffer |-> Append(w.buffer, w.current * 2 ^ (8 - w.filled)),
          current |-> 0, filled |-> 0]

\* mutant of add_uint16: the low-order byte first
add_uint16LittleEndian(w, value) ==
  LET f == flush_to_byte(w)
  IN [f EXCEPT !.buffer = f.buffer \o <<value % 256, value \div 256>>]

add_uint16(w, value) ==
  LET f == flush_to_byte(w)
  IN [f EXCEPT !.buffer = f.buffer \o <<value \div 256, value % 256>>]

add_bytes(w, data) ==
  LET f == flush_to_byte(w)
  IN [f EXCEPT !.buffer = f.buffer \o data]

get_data(w) == flush_to_byte(w).buffer

\* ---------------------------------------------------------------- _BitReader
\* byte_pos counts from 0 as in the code; data[byte_pos] is data[byte_pos + 1]
NewReader(data) == [data |-> data, byte_pos |-> 0, bit_pos |-> 0]

remaining_bits(r) == (Len(r.data) - r.byte_pos) * 8 - r.bit_pos

has_bits(r) == remaining_bits(r) > 0

\* read_bit: [ok |-> FALSE] stands for the ValueError of _require_bits
read_bit(r) ==
  IF 1 > remaining_bits(r)
    THEN [ok |-> FALSE, val |-> 0, r |-> r]
    ELSE LET bit == (r.data[r.byte_pos + 1] \div 2 ^ (7 - r.bit_pos)) % 2
         IN [ok |-> TRUE, val |-> bit,
             r |-> IF r.bit_pos + 1 = 8
                     THEN [r EXCEPT !.bit_pos = 0, !.byte_pos = r.byte_pos + 1]
                     ELSE [r EXCEPT !.bit_pos = r.bit_pos + 1]]

align_to_byte(r) ==
  IF r.bit_pos = 0
    THEN r
    ELSE [r EXCEPT !.bit_pos = 0, !.byte_pos = r.byte_pos + 1]

read_uint16(r) ==
  LET a == align_to_byte(r)
  IN IF a.byte_pos + 2 > Len(a.data)
       THEN [ok |-> FALSE, val |-> 0, r |-> a]
       ELSE [ok |-> TRUE,
             val |-> a.data[a.byte_pos + 1] * 256 + a.data[a.byte_pos + 2],
             r |-> [a EXCEPT !.byte_pos = a.byte_pos + 2]]

\* mutant of read_bytes: no check of the length, the slice is what is left
read_bytesUnchecked(r, length) ==
  LET a == align_to_byte(r)
      last_byte == IF a.byte_pos + length > Len(a.data)
                     THEN Len(a.data) ELSE a.byte_pos + length
  IN [ok |-> TRUE,
      val |-> SubSeq(a.data, a.byte_pos + 1, last_byte),
      r |-> [a EXCEPT !.byte_pos = a.byte_pos + length]]

read_bytes(r, length) ==
  LET a == align_to_byte(r)
  IN IF a.byte_pos + length > Len(a.data)
       THEN [ok |-> FALSE, val |-> <<>>, r |-> a]
       ELSE [ok |-> TRUE,
             val |-> SubSeq(a.data, a.byte_pos + 1, a.byte_pos + length),
             r |-> [a EXCEPT !.byte_pos = a.byte_pos + length]]

\* ------------------------------------------------------ text <-> token list
\* text.split(" "): the pieces between the spaces, empty pieces included
RECURSIVE SplitFrom(_, _)
SplitFrom(text, piece) ==
  IF text = <<>> THEN <<piece>>
  ELSE IF Head(text) = " " THEN <<piece>> \o SplitFrom(Tail(text), <<>>)
  ELSE SplitFrom(Tail(text), Append(piece, Head(text)))

\* mutant of SplitWords: text.split(" ") also for the empty text
SplitWordsNoGuard(text) == SplitFrom(text, <<>>)

\* words = text.split(" ") if text else []
SplitWords(text) == IF text = <<>> THEN <<>> ELSE SplitFrom(text, <<>>)

\* the calls of _encode_word made by _encode_internal, in order
RECURSIVE Interleave(_)
Interleave(words) ==
  IF Len(words) <= 1 THEN words
  ELSE <<Head(words), <<" ">>>> \o Interleave(Tail(words))

Tokens(text) == Interleave(SplitWords(text))

\* " ".join(words)
RECURSIVE Join(_)
Join(words) ==
  IF words = <<>> THEN <<>>
  ELSE IF Len(words) = 1 THEN Head(words)
  ELSE Head(words) \o <<" ">> \o Join(Tail(words))

\* ------------------------------------------------------------------- _Node
\* A codec is the arena of its nodes (node n is index n of every field, in
\* order of creation) with the fields of AdaptiveHuffman.
NodesOf(t) == 1..Len(t.key)

is_leaf(t, n) == t.left[n] = None /\ t.right[n] = None

\* the key counter of a new instance
InitialNextKey == 3

\* AdaptiveHuffman.__init__: NYT (key 1), NCW (key 2), root (key 3)
NewCodec ==
  [symbol   |-> <<NoSymbol, NoSymbol, NoSymbol>>,
   weight   |-> <<0, 0, 0>>,
   key      |-> <<1, 2, 3>>,
   left     |-> <<None, None, 1>>,
   right    |-> <<None, None, 2>>,
   parent   |-> <<3, 3, None>>,
   is_nyt   |-> <<TRUE, FALSE, FALSE>>,
   is_ncw   |-> <<FALSE, TRUE, FALSE>>,
   leaves   |-> [w \in {} |-> None],
   next_key |-> InitialNextKey,
   nyt      |-> 1,
   ncw      |-> 2,
   root     |-> 3]

\* _is_ancestor follows parent pointers from descendant.parent until it meets
\* anc ("yes") or None ("no"); on a chain that closes into a cycle without anc
\* the loop of the code never ends ("loops").  Fuel: a chain longer than the
\* number of nodes has revisited a node.
RECURSIVE AncestorWalk(_, _, _, _)
AncestorWalk(t, anc, current, fuel) ==
  IF current = None THEN "no"
  ELSE IF current = anc THEN "yes"
  ELSE IF fuel = 0 THEN "loops"
  ELSE AncestorWalk(t, anc, t.parent[current], fuel - 1)

is_ancestor(t, anc, descendant) ==
  AncestorWalk(t, anc, t.parent[descendant], Len(t.key))

\* the test of line 311 up to the call of _is_ancestor
InBlockAbove(t, cur, highest, target_weight) ==
  t.weight[cur] = target_weight /\ t.key[cur] > t.key[highest]

\* the loop of _find_highest_node_in_block: stack is popped from its end,
\* left is pushed before right.  None: a call of _is_ancestor never returns.
RECURSIVE BlockSearch(_, _, _, _, _)
BlockSearch(t, node, stack, highest, fuel) ==
  IF stack = <<>> THEN highest
  ELSE IF fuel = 0 THEN None
  ELSE
    LET cur    == stack[Len(stack)]
        rest   == SubSeq(stack, 1, Len(stack) - 1)
        cand   == InBlockAbove(t, cur, highest, t.weight[node])
        anc    == IF cand THEN is_ancestor(t, cur, node) ELSE "no"
        pushed == rest \o (IF t.left[cur] # None THEN <<t.left[cur]>> ELSE <<>>)
                       \o (IF t.right[cur] # None THEN <<t.right[cur]>> ELSE <<>>)
    IN IF anc = "loops" THEN None
       ELSE CHOOSE r \in
              {BlockSearch(t, node, p[1], p[2], fuel - 1) :
                 p \in {<<pushed, IF cand /\ anc = "no" THEN cur ELSE highest>>}} : TRUE

find_highest_node_in_block(t, node) ==
  BlockSearch(t, node, <<t.root>>, node, 2 * Len(t.key) + 1)

\* _replace_child, the helper of _swap_nodes; ok = FALSE is its RuntimeError
replace_child(t, parent, old, new) ==
  IF t.left[parent] = old
    THEN [ok |-> TRUE, t |-> [t EXCEPT !.left[parent] = new]]
  ELSE IF t.right[parent] = old
    THEN [ok |-> TRUE, t |-> [t EXCEPT !.right[parent] = new]]
  ELSE [ok |-> FALSE, t |-> t]

swap_nodes(t, a, b) ==
  LET a_parent == t.parent[a]
      b_parent == t.parent[b]
  IN IF a = b \/ a_parent = None \/ b_parent = None
       THEN [ok |-> TRUE, t |-> t]
       ELSE
         LET r1 == replace_child(t, a_parent, a, b)
             r2 == replace_child(r1.t, b_parent, b, a)
         IN IF ~r1.ok THEN [ok |-> FALSE, t |-> t]
            ELSE IF ~r2.ok THEN [ok |-> FALSE, t |-> r1.t]
            ELSE [ok |-> TRUE,
                  t  |-> [r2.t EXCEPT !.parent[a] = b_parent,
                                      !.parent[b] = a_parent]]

\* the condition of line 299
SwapWanted(t, node, highest) ==
  /\ highest # node
  /\ t.parent[node] # highest
  /\ t.parent[highest] # node

\* one iteration of the loop of _increment_weight at node; node is the next
\* node of the walk (None: the loop ends); ok = FALSE is the RuntimeError
\* mutant of IncrementAfter: the walk ascends to the parent node had before
\* the swap
IncrementAfterOldParent(t, node, s) ==
  [ok   |-> s.ok,
   t    |-> IF s.ok THEN [s.t EXCEPT !.weight[node] = @ + 1] ELSE s.t,
   node |-> t.parent[node]]

\* lines 301-302 after the swap (or no swap) s: weight += 1 and the ascent
IncrementAfter(t, node, s) ==
  [ok   |-> s.ok,
   t    |-> IF s.ok THEN [s.t EXCEPT !.weight[node] = @ + 1] ELSE s.t,
   node |-> s.t.parent[node]]

IncrementStep(t, node) ==
  CHOOSE r \in
    {IncrementAfter(t, node,
                    IF SwapWanted(t, node, highest)
                      THEN swap_nodes(t, node, highest)
                      ELSE [ok |-> TRUE, t |-> t]) :
       highest \in {find_highest_node_in_block(t, node)}} : TRUE

\* mutant of InsertNodes: the new NYT takes the first of the two new keys
InsertNodesNytFirst(t, word) ==
  LET new_word_leaf == Len(t.key) + 1
      new_nyt       == Len(t.key) + 2
      internal      == t.nyt
  IN [symbol   |-> t.symbol \o <<word, NoSymbol>>,
      weight   |-> t.weight \o <<0, 0>>,
      key      |-> t.key \o <<t.next_key + 1, t.next_key>>,
      left     |-> [t.left EXCEPT ![internal] = new_nyt] \o <<None, None>>,
      right    |-> [t.right EXCEPT ![internal] = new_word_leaf] \o <<None, None>>,
      parent   |-> t.parent \o <<internal, internal>>,
      is_nyt   |-> [t.is_nyt EXCEPT ![internal] = FALSE] \o <<FALSE, TRUE>>,
      is_ncw   |-> t.is_ncw \o <<FALSE, FALSE>>,
      leaves   |-> [w \in DOMAIN t.leaves \cup {word} |->
                      IF w = word THEN new_word_leaf ELSE t.leaves[w]],
      next_key |-> t.next_key + 2,
      nyt      |-> new_nyt,
      ncw      |-> t.ncw,
      root     |-> t.root]

\* _insert_new_word up to its call of _increment_weight: the word leaf is
\* created first (node Len + 1), the new NYT second (node Len + 2)
InsertNodes(t, word) ==
  LET new_word_leaf == Len(t.key) + 1
      new_nyt       == Len(t.key) + 2
      internal      == t.nyt
  IN [symbol   |-> t.symbol \o <<word, NoSymbol>>,
      weight   |-> t.weight \o <<0, 0>>,
      key      |-> t.key \o <<t.next_key, t.next_key + 1>>,
      left     |-> [t.left EXCEPT ![internal] = new_nyt] \o <<None, None>>,
      right    |-> [t.right EXCEPT ![internal] = new_word_leaf] \o <<None, None>>,
      parent   |-> t.parent \o <<internal, internal>>,
      is_nyt   |-> [t.is_nyt EXCEPT ![internal] = FALSE] \o <<FALSE, TRUE>>,
      is_ncw   |-> t.is_ncw \o <<FALSE, FALSE>>,
      leaves   |-> [w \in DOMAIN t.leaves \cup {word} |->
                      IF w = word THEN new_word_leaf ELSE t.leaves[w]],
      next_key |-> t.next_key + 2,
      nyt      |-> new_nyt,
      ncw      |-> t.ncw,
      root     |-> t.root]

\* _path_to_node: the bits from the root to node (1 = right child);
\* ok = "error" is the RuntimeError of a node without parent, "loops" a
\* parent chain that never reaches the root
RECURSIVE PathWalk(_, _, _, _)
PathWalk(t, current, path, fuel) ==
  IF current = t.root THEN [ok |-> "ok", path |-> path]
  ELSE IF t.parent[current] = None THEN [ok |-> "error", path |-> path]
  ELSE IF fuel = 0 THEN [ok |-> "loops", path |-> path]
  ELSE PathWalk(t, t.parent[current],
                <<IF t.right[t.parent[current]] = current THEN 1 ELSE 0>> \o path,
                fuel - 1)

path_to_node(t, node) == PathWalk(t, node, <<>>, Len(t.key))

\* the descent of _decode_next_word from the root to a leaf, one bit per
\* internal node; ok = FALSE is the ValueError of read_bit (or the
\* AttributeError of a missing child)
RECURSIVE Descend(_, _, _)
Descend(t, r, node) ==
  IF node = None THEN [ok |-> FALSE, node |-> node, r |-> r]
  ELSE IF is_leaf(t, node) THEN [ok |-> TRUE, node |-> node, r |-> r]
  ELSE CHOOSE d \in
         {IF ~b.ok THEN [ok |-> FALSE, node |-> node, r |-> r]
          ELSE Descend(t, b.r, IF b.val = 1 THEN t.right[node] ELSE t.left[node]) :
            b \in {read_bit(r)}} : TRUE

\* ------------------------------------------------------------ whole calls
\* A call of encode or decode as one function of the tree and the argument,
\* for callers that are modelled at the level of messages.  status is "ok",
\* "error" (the call raises) or "hangs" (the call never returns); t is the
\* tree the call leaves behind.

\* _increment_weight(node): the iterations of its loop, one after another
RECURSIVE increment_weight(_, _, _)
increment_weight(t, node, fuel) ==
  IF node = None THEN [status |-> "ok", t |-> t]
  ELSE IF fuel = 0 \/ find_highest_node_in_block(t, node) = None
    THEN [status |-> "hangs", t |-> t]
  ELSE CHOOSE x \in
         {IF ~s.ok THEN [status |-> "error", t |-> s.t]
          ELSE increment_weight(s.t, s.node, fuel - 1) :
            s \in {IncrementStep(t, node)}} : TRUE

\* _insert_new_word(word)
insert_new_word(t, word) ==
  CHOOSE x \in
    {increment_weight(u, Len(t.key) + 1, 4 * Len(u.key)) :
       u \in {InsertNodes(t, word)}} : TRUE

\* _decode_next_word(reader); word is the value returned
decode_next_word(t, reader) ==
  CHOOSE x \in
    {IF ~d.ok THEN [status |-> "error", t |-> t, r |-> d.r, word |-> <<>>]
     ELSE IF t.is_ncw[d.node] THEN
       CHOOSE y \in
         {IF inc.status # "ok"
            THEN [status |-> inc.status, t |-> inc.t, r |-> d.r, word |-> <<>>]
          ELSE CHOOSE z \in
            {IF ~raw.ok \/ ~StrDecodeOk(raw.val)
               THEN [status |-> "error", t |-> inc.t, r |-> raw.r, word |-> <<>>]
             ELSE CHOOSE v \in
               {[status |-> ins.status, t |-> ins.t, r |-> raw.r,
                 word |-> StrDecode(raw.val)] :
                  ins \in {insert_new_word(inc.t, StrDecode(raw.val))}} : TRUE :
               raw \in {CHOOSE q \in
                          {IF ~length.ok
                             THEN [ok |-> FALSE, val |-> <<>>, r |-> length.r]
                             ELSE read_bytes(length.r, length.val) :
                             length \in {read_uint16(align_to_byte(d.r))}} : TRUE}} : TRUE :
            inc \in {increment_weight(t, d.node, 4 * Len(t.key))}} : TRUE
     ELSE IF t.is_nyt[d.node] THEN
       [status |-> "ok", t |-> t, r |-> d.r, word |-> <<>>]
     ELSE
       CHOOSE y \in
         {[status |-> inc.status, t |-> inc.t, r |-> d.r,
           word |-> IF t.symbol[d.node] = NoSymbol THEN <<>> ELSE t.symbol[d.node]] :
            inc \in {increment_weight(t, d.node, 4 * Len(t.key))}} : TRUE :
       d \in {Descend(t, reader, t.root)}} : TRUE

\* the loop of _decode_internal
RECURSIVE DecodeLoop(_, _, _)
DecodeLoop(t, reader, words) ==
  IF ~has_bits(reader) THEN [status |-> "ok", t |-> t, value |-> Join(words)]
  ELSE CHOOSE x \in
         {IF w.status # "ok" THEN [status |-> w.status, t |-> w.t, value |-> <<>>]
          ELSE DecodeLoop(w.t, w.r,
                          IF w.word = <<" ">> THEN words ELSE Append(words, w.word)) :
            w \in {decode_next_word(t, reader)}} : TRUE

\* decode(data) on an instance whose tree is t
decode_internal(t, data) == DecodeLoop(t, NewReader(data), <<>>)

\* _encode_word(word, writer)
encode_word(t, word, writer) ==
  CHOOSE x \in
    {IF path.ok = "loops" THEN [status |-> "hangs", t |-> t, w |-> writer]
     ELSE IF path.ok = "error" THEN [status |-> "error", t |-> t, w |-> writer]
     ELSE IF word \notin DOMAIN t.leaves THEN
       IF Len(StrEncode(word)) >= WordLimit
         THEN [status |-> "error", t |-> t, w |-> add_bits(writer, path.path)]
         ELSE CHOOSE y \in
           {[status |-> ins.status, t |-> ins.t,
             w |-> add_bytes(add_uint16(flush_to_byte(add_bits(writer, path.path)),
                                        Len(StrEncode(word))),
                             StrEncode(word))] :
              ins \in {insert_new_word(t, word)}} : TRUE
     ELSE CHOOSE y \in
           {[status |-> inc.status, t |-> inc.t, w |-> add_bits(writer, path.path)] :
              inc \in {increment_weight(t, t.leaves[word], 4 * Len(t.key))}} : TRUE :
       path \in {path_to_node(t, IF word \in DOMAIN t.leaves
                                   THEN t.leaves[word] ELSE t.ncw)}} : TRUE

\* the loop of _encode_internal over the words and separators
RECURSIVE EncodeLoop(_, _, _)
EncodeLoop(t, tokens, writer) ==
  IF tokens = <<>> THEN [status |-> "ok", t |-> t, value |-> get_data(writer)]
  ELSE CHOOSE x \in
         {IF e.status # "ok" THEN [status |-> e.status, t |-> e.t, value |-> <<>>]
          ELSE EncodeLoop(e.t, Tail(tokens), e.w) :
            e \in {encode_word(t, Head(tokens), writer)}} : TRUE

\* encode(text) on an instance whose tree is t
encode_internal(t, text) == EncodeLoop(t, Tokens(text), NewWriter)

\* ------------------------------------------------------------------- state
VARIABLES
  codec,   \* codec[i]: tree, word index and key counter of instance i
  call,    \* call[th]: the call thread th has in progress and its locals
  lock,    \* lock[i]: the instance's threading.Lock is held
  last,    \* last[i]: outcome of the last call completed on instance i
  sent,    \* the messages "enc" has encoded: text and payload, in order
  rcvd,    \* the outcomes of the decode calls of "dec", in order
  ncalls,  \* ncalls[i]: calls started on instance i
  io,      \* a _BitWriter and the _BitReader over its data, used on their own
  chat     \* the chat transport: server, clients and the bytes in flight

vars == <<codec, call, lock, last, sent, rcvd, ncalls, io, chat>>

\* no call in progress
IdleCall ==
  [pc     |-> "idle",
   op     |-> "none",           \* the public method called: encode or decode
   tokens |-> <<>>,             \* _encode_internal: the words still to encode
   writer |-> NewWriter,
   reader |-> NewReader(<<>>),
   words  |-> <<>>,             \* _decode_internal: words
   ntok   |-> 0,                \* completed calls of _decode_next_word
   node   |-> None,             \* _increment_weight: node
   ret    |-> "idle",           \* where the running _increment_weight returns
   tok    |-> <<>>,             \* the word _decode_next_word will return
   cur    |-> None]             \* current of a loop that never ends

\* a new writer, nothing written yet
NewIo ==
  [phase  |-> "write",
   ops    |-> <<>>,             \* the calls made on the writer, in order
   writer |-> NewWriter,
   reader |-> NewReader(<<>>),
   got    |-> <<>>]             \* what the calls made on the reader returned

\* the server listens, nobody has connected
NewChat ==
  [clients |-> {},              \* run_server: clients, the registry
   srv     |-> [c \in Conns |-> \* client_thread of connection c
                  [pc |-> "none", decoder |-> NewCodec, frame |-> <<>>,
                   seen |-> <<>>]],
   cli     |-> [c \in Conns |-> \* the program at the other end of c
                  [main |-> "none", recv |-> "none", encoder |-> NewCodec,
                   decoder |-> NewCodec, nsent |-> 0, seen |-> <<>>]],
   up      |-> [c \in Conns |-> <<>>],   \* frames written to c, not yet read
   down    |-> [c \in Conns |-> <<>>]]   \* frames sent on c, not yet read

Init ==
  /\ codec =[i \in Instances |-> NewCodec]
  /\ call = [th \in Threads |-> IdleCall]
  /\ lock = [i \in Instances |-> FALSE]
  /\ last = [i \in Instances |->
               [op |-> "none", input |-> <<>>, status |-> "none", value |-> <<>>]]
  /\ sent = <<>>
  /\ rcvd = <<>>
  /\ ncalls = [i \in Instances |-> 0]
  /\ io = NewIo
  /\ chat = NewChat

\* mutant of MayStart: the call does not wait for the lock
MayStartNoLock(i) ==
  /\ call[i].pc = "idle"
  /\ IF InstanceOf(i) = "any" THEN ncalls["enc"] = 0 ELSE ncalls["any"] = 0

\* with self._lock: thread i, not inside a call, enters when the lock of its
\* instance is free.  The pair enc/dec and the instance "any" share no state;
\* the behaviours of the pair and those of "any" are explored separately.
MayStart(i) ==
  /\ ~lock[InstanceOf(i)]
  /\ call[i].pc = "idle"
  /\ IF InstanceOf(i) = "any" THEN ncalls["enc"] = 0 ELSE ncalls["any"] = 0

\* the argument of the call in progress on i
InputOf(i) ==
  IF call[i].op = "encode" THEN call[i].tok ELSE call[i].reader.data

\* the call on i returns value: the with-block releases the lock
Return(i, value, ntok) ==
  /\ call' = [call EXCEPT ![i] = IdleCall]
  /\ lock' = [lock EXCEPT ![InstanceOf(i)] = FALSE]
  /\ last' = [last EXCEPT ![InstanceOf(i)] = [op |-> call[i].op, input |-> InputOf(i),
                                   status |-> "ok", value |-> value]]
  /\ sent' = IF InstanceOf(i) = "enc"
               THEN Append(sent, [text |-> call[i].tok, payload |-> value])
               ELSE sent
  /\ rcvd' = IF InstanceOf(i) = "dec"
               THEN Append(rcvd, [status |-> "ok", text |-> value, ntok |-> ntok])
               ELSE rcvd

\* mutant of Raise: the lock stays held when the call raises
RaiseHoldingLock(i) ==
  /\ call' = [call EXCEPT ![i] = IdleCall]
  /\ lock' = lock
  /\ last' = [last EXCEPT ![InstanceOf(i)] = [op |-> call[i].op, input |-> InputOf(i),
                                   status |-> "error", value |-> <<>>]]
  /\ sent' = sent
  /\ rcvd' = IF InstanceOf(i) = "dec"
               THEN Append(rcvd, [status |-> "error", text |-> <<>>,
                                  ntok |-> call[i].ntok])
               ELSE rcvd

\* the call on i raises: the with-block releases the lock, nothing is returned
Raise(i) ==
  /\ call' = [call EXCEPT ![i] = IdleCall]
  /\ lock' = [lock EXCEPT ![InstanceOf(i)] = FALSE]
  /\ last' = [last EXCEPT ![InstanceOf(i)] = [op |-> call[i].op, input |-> InputOf(i),
                                   status |-> "error", value |-> <<>>]]
  /\ sent' = sent
  /\ rcvd' = IF InstanceOf(i) = "dec"
               THEN Append(rcvd, [status |-> "error", text |-> <<>>,
                                  ntok |-> call[i].ntok])
               ELSE rcvd

\* --------------------------------------------------------------- encode
\* encode(text): take the lock, enter _encode_internal
Encode(i, text) ==
  /\ InstanceOf(i) \in {"enc", "any"}
  /\ MayStart(i)
  /\ ncalls[InstanceOf(i)] < MaxCalls
  /\ ncalls' = [ncalls EXCEPT ![InstanceOf(i)] = @ + 1]
  /\ lock' = [lock EXCEPT ![InstanceOf(i)] = TRUE]
  /\ call' = [call EXCEPT ![i] =
                [IdleCall EXCEPT !.pc = "encode", !.op = "encode",
                                 !.tokens = Tokens(text),
                                 !.tok = text]]
  /\ UNCHANGED <<codec, last, sent, rcvd>>
  /\ UNCHANGED <<io, chat>>

\* the call never returns: the loop of _is_ancestor (or of _path_to_node)
\* follows a cycle of parent pointers
Stuck(i) ==
  \/ /\ call[i].pc = "increment"
     /\ call[i].node # None
     /\ find_highest_node_in_block(codec[InstanceOf(i)], call[i].node) = None
  \/ /\ call[i].pc = "encode"
     /\ call[i].tokens # <<>>
     /\ LET word == Head(call[i].tokens)
            target == IF word \in DOMAIN codec[InstanceOf(i)].leaves
                        THEN codec[InstanceOf(i)].leaves[word] ELSE codec[InstanceOf(i)].ncw
        IN path_to_node(codec[InstanceOf(i)], target).ok = "loops"

\* _encode_word(word) up to its call of _increment_weight
EncodeWord(i) ==
  /\ call[i].pc = "encode"
  /\ call[i].tokens # <<>>
  /\ ~Stuck(i)
  /\ \E t \in {codec[InstanceOf(i)]}, word \in {Head(call[i].tokens)} :
     \E new_word \in {word \notin DOMAIN t.leaves} :
     \E target_node \in {IF new_word THEN t.ncw ELSE t.leaves[word]} :
     \E path \in {path_to_node(t, target_node)}, raw \in {StrEncode(word)} :
     \E w1 \in {add_bits(call[i].writer, path.path)} :
     \E w2 \in {add_bytes(add_uint16(flush_to_byte(w1), Len(raw)), raw)} :
        IF path.ok = "error" \/ (new_word /\ Len(raw) >= WordLimit)
          THEN Raise(i) /\ UNCHANGED <<codec, ncalls>>
          ELSE
            /\ codec' = [codec EXCEPT ![InstanceOf(i)] =
                           IF new_word THEN InsertNodes(t, word) ELSE t]
            /\ call' = [call EXCEPT ![i] =
                          [@ EXCEPT !.tokens = Tail(@),
                                    !.writer = IF new_word THEN w2 ELSE w1,
                                    !.pc = "increment",
                                    !.ret = "encode",
                                    !.node = IF new_word THEN Len(t.key) + 1
                                             ELSE t.leaves[word]]]
            /\ UNCHANGED <<lock, last, sent, rcvd, ncalls>>
  /\ UNCHANGED <<io, chat>>

\* return writer.get_data()
EncodeReturn(i) ==
  /\ call[i].pc = "encode"
  /\ call[i].tokens = <<>>
  /\ Return(i, get_data(call[i].writer), 0)
  /\ UNCHANGED <<codec, ncalls>>
  /\ UNCHANGED <<io, chat>>

\* ------------------------------------------------------ _increment_weight
\* one iteration of the loop of _increment_weight
Increment(i) ==
  /\ call[i].pc = "increment"
  /\ call[i].node # None
  /\ ~Stuck(i)
  /\ \E r \in {IncrementStep(codec[InstanceOf(i)], call[i].node)} :
        /\ codec' = [codec EXCEPT ![InstanceOf(i)] = r.t]
        /\ IF r.ok
             THEN /\ call' = [call EXCEPT ![i].node = r.node]
                  /\ UNCHANGED <<lock, last, sent, rcvd>>
             ELSE Raise(i)
  /\ UNCHANGED ncalls
  /\ UNCHANGED <<io, chat>>

\* node is None: _increment_weight returns to its caller
IncrementReturn(i) ==
  /\ call[i].pc = "increment"
  /\ call[i].node = None
  /\ call' = [call EXCEPT ![i] =
       CASE call[i].ret = "encode" -> [@ EXCEPT !.pc = "encode", !.ret = "idle"]
         [] call[i].ret = "ncw"    -> [@ EXCEPT !.pc = "raw", !.ret = "idle"]
         [] call[i].ret = "decode" ->
              \* _decode_next_word returns tok to the loop of _decode_internal
              [@ EXCEPT !.pc = "decode", !.ret = "idle", !.tok = <<>>,
                        !.ntok = @ + 1,
                        !.words = IF call[i].tok = <<" ">>
                                    THEN @ ELSE Append(@, call[i].tok)]]
  /\ UNCHANGED <<codec, lock, last, sent, rcvd, ncalls>>
  /\ UNCHANGED <<io, chat>>

\* a loop over parent pointers that never ends: current = current.parent
Spin(i) ==
  /\ Stuck(i)
  /\ LET start == IF call[i].pc = "increment" THEN call[i].node
                  ELSE LET word == Head(call[i].tokens)
                       IN IF word \in DOMAIN codec[InstanceOf(i)].leaves
                            THEN codec[InstanceOf(i)].leaves[word] ELSE codec[InstanceOf(i)].ncw
         from  == IF call[i].cur = None THEN start ELSE call[i].cur
     IN call' = [call EXCEPT ![i].cur = codec[InstanceOf(i)].parent[from]]
  /\ UNCHANGED <<codec, lock, last, sent, rcvd, ncalls>>
  /\ UNCHANGED <<io, chat>>

\* --------------------------------------------------------------- decode
\* decode(data): take the lock, enter _decode_internal.  "dec" is handed the
\* payloads of "enc" in order, "any" any of RawInputs.
Decode(i, data) ==
  /\ InstanceOf(i) \in {"dec", "any"}
  /\ MayStart(i)
  /\ IF InstanceOf(i) = "dec"
       THEN Len(rcvd) < Len(sent) /\ data = sent[Len(rcvd) + 1].payload
       ELSE ncalls[InstanceOf(i)] < MaxCalls /\ data \in RawInputs
  /\ ncalls' = [ncalls EXCEPT ![InstanceOf(i)] = @ + 1]
  /\ lock' = [lock EXCEPT ![InstanceOf(i)] = TRUE]
  /\ call' = [call EXCEPT ![i] =
                [IdleCall EXCEPT !.pc = "decode", !.op = "decode",
                                 !.reader = NewReader(data)]]
  /\ UNCHANGED <<codec, last, sent, rcvd>>
  /\ UNCHANGED <<io, chat>>

\* mutant of DecodeWord: the raw word is read before NCW is incremented
DecodeWordReadsFirst(i) ==
  /\ call[i].pc = "decode"
  /\ has_bits(call[i].reader)
  /\ \E t \in {codec[InstanceOf(i)]} :
     \E d \in {Descend(t, call[i].reader, t.root)} :
        IF ~d.ok
          THEN Raise(i)
          ELSE
            /\ call' = [call EXCEPT ![i] =
                 IF t.is_ncw[d.node]
                   THEN [@ EXCEPT !.reader = d.r, !.pc = "raw"]
                 ELSE IF t.is_nyt[d.node]
                   THEN \* return "": appended to words by the caller
                        [@ EXCEPT !.reader = d.r, !.ntok = @ + 1,
                                  !.words = Append(@, <<>>)]
                 ELSE [@ EXCEPT !.reader = d.r, !.pc = "increment",
                                !.ret = "decode", !.node = d.node,
                                !.tok = IF t.symbol[d.node] = NoSymbol
                                          THEN <<>> ELSE t.symbol[d.node]]]
            /\ UNCHANGED <<lock, last, sent, rcvd>>
  /\ UNCHANGED <<codec, ncalls>>
  /\ UNCHANGED <<io, chat>>

\* _decode_next_word up to its first call of _increment_weight
DecodeWord(i) ==
  /\ call[i].pc = "decode"
  /\ has_bits(call[i].reader)
  /\ \E t \in {codec[InstanceOf(i)]} :
     \E d \in {Descend(t, call[i].reader, t.root)} :
        IF ~d.ok
          THEN Raise(i)
          ELSE
            /\ call' = [call EXCEPT ![i] =
                 IF t.is_ncw[d.node]
                   THEN [@ EXCEPT !.reader = d.r, !.pc = "increment",
                                  !.ret = "ncw", !.node = d.node]
                 ELSE IF t.is_nyt[d.node]
                   THEN \* return "": appended to words by the caller
                        [@ EXCEPT !.reader = d.r, !.ntok = @ + 1,
                                  !.words = Append(@, <<>>)]
                 ELSE [@ EXCEPT !.reader = d.r, !.pc = "increment",
                                !.ret = "decode", !.node = d.node,
                                !.tok = IF t.symbol[d.node] = NoSymbol
                                          THEN <<>> ELSE t.symbol[d.node]]]
            /\ UNCHANGED <<lock, last, sent, rcvd>>
  /\ UNCHANGED <<codec, ncalls>>
  /\ UNCHANGED <<io, chat>>

\* _decode_next_word after the NCW leaf was incremented: read the raw word
\* and insert it, up to the call of _increment_weight of _insert_new_word
DecodeRaw(i) ==
  /\ call[i].pc = "raw"
  /\ \E t \in {codec[InstanceOf(i)]} :
     \E length \in {read_uint16(align_to_byte(call[i].reader))} :
     \E raw \in {read_bytes(length.r, length.val)} :
        IF ~length.ok \/ ~raw.ok \/ ~StrDecodeOk(raw.val)
          THEN Raise(i) /\ UNCHANGED codec
          ELSE
            /\ codec' = [codec EXCEPT ![InstanceOf(i)] = InsertNodes(t, StrDecode(raw.val))]
            /\ call' = [call EXCEPT ![i] =
                          [@ EXCEPT !.reader = raw.r, !.pc = "increment",
                                    !.ret = "decode", !.node = Len(t.key) + 1,
                                    !.tok = StrDecode(raw.val)]]
            /\ UNCHANGED <<lock, last, sent, rcvd>>
  /\ UNCHANGED ncalls
  /\ UNCHANGED <<io, chat>>

\* return " ".join(words)
DecodeReturn(i) ==
  /\ call[i].pc = "decode"
  /\ ~has_bits(call[i].reader)
  /\ Return(i, Join(call[i].words), call[i].ntok)
  /\ UNCHANGED <<codec, ncalls>>
  /\ UNCHANGED <<io, chat>>

\* ------------------------------------------------------------ specification
\* the steps of a call in progress on instance i
Run(i) ==
  \/ EncodeWord(i)
  \/ EncodeReturn(i)
  \/ Increment(i)
  \/ IncrementReturn(i)
  \/ Spin(i)
  \/ DecodeWord(i)
  \/ DecodeRaw(i)
  \/ DecodeReturn(i)

\* a caller calls encode
EncodeCall == \E i \in Threads, text \in Texts : Encode(i, text)

\* a caller calls decode
DecodeCall ==
  \E i \in Threads :
    \E data \in RawInputs \cup {sent[k].payload : k \in 1..Len(sent)} :
      Decode(i, data)

Next ==
  \/ EncodeCall
  \/ DecodeCall
  \/ \E i \in Threads : EncodeWord(i)
  \/ \E i \in Threads : EncodeReturn(i)
  \/ \E i \in Threads : Increment(i)
  \/ \E i \in Threads : IncrementReturn(i)
  \/ \E i \in Threads : Spin(i)
  \/ \E i \in Threads : DecodeWord(i)
  \/ \E i \in Threads : DecodeRaw(i)
  \/ \E i \in Threads : DecodeReturn(i)

Spec == Init /\ [][Next]_vars

\* a call in progress keeps running, and every payload of "enc" is handed
\* to "dec"
FairSpec ==
  /\ Spec
  /\ \A i \in Threads : WF_vars(Run(i))
  /\ WF_vars(\E k \in 1..Len(sent) : Decode("dec", sent[k].payload))

\* ------------------------------------------- writer and reader on their own
\* one call on the writer
ApplyOp(w, op) ==
  CASE op.kind = "bit"    -> add_bit(w, op.val)
    [] op.kind = "bits"   -> add_bits(w, op.val)
    [] op.kind = "uint16" -> add_uint16(w, op.val)
    [] op.kind = "bytes"  -> add_bytes(w, op.val)

\* n calls of read_bit in a row; the first that raises ends them
RECURSIVE ReadBits(_, _)
ReadBits(r, n) ==
  IF n = 0 THEN [ok |-> TRUE, val |-> <<>>, r |-> r]
  ELSE LET b == read_bit(r)
       IN IF ~b.ok THEN [ok |-> FALSE, val |-> <<>>, r |-> b.r]
          ELSE LET rest == ReadBits(b.r, n - 1)
               IN [ok |-> rest.ok, val |-> <<b.val>> \o rest.val, r |-> rest.r]

\* the call on the reader that matches a call on the writer
MatchingRead(r, op) ==
  CASE op.kind = "bit"    -> read_bit(r)
    [] op.kind = "bits"   -> ReadBits(r, Len(op.val))
    [] op.kind = "uint16" -> read_uint16(r)
    [] op.kind = "bytes"  -> read_bytes(r, Len(op.val))

IoWrite(op) ==
  /\ io.phase = "write"
  /\ Len(io.ops) < MaxOps
  /\ io' = [io EXCEPT !.writer = ApplyOp(io.writer, op), !.ops = Append(@, op)]
  /\ UNCHANGED <<codec, call, lock, last, sent, rcvd, ncalls, chat>>

\* get_data(), and a reader over the bytes
IoGetData ==
  /\ io.phase = "write"
  /\ io' = [io EXCEPT !.phase = "read",
                      !.writer = flush_to_byte(io.writer),
                      !.reader = NewReader(get_data(io.writer))]
  /\ UNCHANGED <<codec, call, lock, last, sent, rcvd, ncalls, chat>>

IoRead ==
  /\ io.phase = "read"
  /\ Len(io.got) < Len(io.ops)
  /\ \E x \in {MatchingRead(io.reader, io.ops[Len(io.got) + 1])} :
       io' = [io EXCEPT !.reader = x.r,
                        !.got = Append(@, [ok |-> x.ok, val |-> x.val])]
  /\ UNCHANGED <<codec, call, lock, last, sent, rcvd, ncalls, chat>>

BitNext ==
  \/ \E op \in BitOps : IoWrite(op)
  \/ IoGetData
  \/ IoRead

BitSpec == Init /\ [][BitNext]_vars

\* ------------------------------------------------------- the chat transport
\* src/server.py and src/client.py.  A frame is the payload of one message
\* with its length prefix; from and n are not on the wire, they name the
\* connection whose peer wrote the frame and its number among the frames of
\* that peer.  The sockets of the model stay open and every frame holds
\* between 1 and MAX_PAYLOAD bytes.  A decoder keeps in seen the frames it
\* was handed, in order.  Every codec of the transport is called from one
\* thread only, so that its lock is always free when a call begins.

\* a frame written by the peer of connection c
Frame(c, payload) ==
  [from |-> c, n |-> chat.cli[c].nsent + 1, payload |-> payload]

\* full_message = f"{username}: {line}"
full_message(line) == Username \o <<":", " ">> \o line

\* the frames written to the server so far
FramesWritten ==
  LET RECURSIVE Sum(_)
      Sum(S) == IF S = {} THEN 0
                ELSE LET c == CHOOSE x \in S : TRUE
                     IN chat.cli[c].nsent + Sum(S \ {c})
  IN Sum(Conns)

\* run_server, lines 89-97, for a client that connects (run_client, lines
\* 52-62): the connection joins the registry and its thread starts with a
\* decoder of its own; the client has a new encoder, a new decoder and its
\* receive thread
Accept(c) ==
  /\ chat.srv[c].pc = "none"
  /\ \A b \in Conns : b < c => b \in chat.clients
  /\ chat' = [chat EXCEPT
       !.clients = @ \cup {c},
       !.srv[c] = [pc |-> "recv", decoder |-> NewCodec, frame |-> <<>>, seen |-> <<>>],
       !.cli[c] = [main |-> "input", recv |-> "recv", encoder |-> NewCodec,
                   decoder |-> NewCodec, nsent |-> 0, seen |-> <<>>]]
  /\ UNCHANGED <<codec, call, lock, last, sent, rcvd, ncalls, io>>

\* the loop of run_client, lines 66-79, for one line typed: the message is
\* encoded by the encoder of the client and written to the socket
ClientSend(c, line) ==
  /\ chat.cli[c].main = "input"
  /\ line # <<>>
  /\ FramesWritten < MaxFrames
  /\ \E e \in {encode_internal(chat.cli[c].encoder, full_message(line))} :
       chat' = [chat EXCEPT
         !.cli[c].encoder = e.t,
         !.cli[c].main = CASE e.status = "ok"    -> "input"
                           [] e.status = "hangs" -> "hung"
                           [] e.status = "error" -> "closed",
         !.cli[c].nsent = IF e.status = "ok" THEN @ + 1 ELSE @,
         !.up[c] = IF e.status = "ok" THEN Append(@, Frame(c, e.value)) ELSE @]
  /\ UNCHANGED <<codec, call, lock, last, sent, rcvd, ncalls, io>>

\* a peer of the server that hands text to its encoder as it is and writes
\* the frame: struct.pack("!I", len(payload)) + payload with
\* payload = encoder.encode(text)
PeerSend(c, text) ==
  /\ chat.cli[c].main = "input"
  /\ FramesWritten < MaxFrames
  /\ \E e \in {encode_internal(chat.cli[c].encoder, text)} :
       chat' = [chat EXCEPT
         !.cli[c].encoder = e.t,
         !.cli[c].main = CASE e.status = "ok"    -> "input"
                           [] e.status = "hangs" -> "hung"
                           [] e.status = "error" -> "closed",
         !.cli[c].nsent = IF e.status = "ok" THEN @ + 1 ELSE @,
         !.up[c] = IF e.status = "ok" THEN Append(@, Frame(c, e.value)) ELSE @]
  /\ UNCHANGED <<codec, call, lock, last, sent, rcvd, ncalls, io>>

\* a peer of the server writes a frame whose payload no encoder produced
PeerWrite(c, payload) ==
  /\ chat.cli[c].main = "input"
  /\ FramesWritten < MaxFrames
  /\ chat' = [chat EXCEPT
       !.cli[c].nsent = @ + 1,
       !.up[c] = Append(@, Frame(c, payload))]
  /\ UNCHANGED <<codec, call, lock, last, sent, rcvd, ncalls, io>>

\* client_thread, lines 43-66: one frame is read from the connection and
\* decoded by the decoder of the thread; a decode error is printed and the
\* loop continues with the next frame
ServerRecv(c) ==
  /\ chat.srv[c].pc = "recv"
  /\ chat.up[c] # <<>>
  /\ \E f \in {Head(chat.up[c])} :
     \E d \in {decode_internal(chat.srv[c].decoder, f.payload)} :
       chat' = [chat EXCEPT
         !.up[c] = Tail(@),
         !.srv[c].decoder = d.t,
         !.srv[c].seen = Append(@, [from |-> f.from, n |-> f.n]),
         !.srv[c].frame = IF d.status = "ok" THEN <<f>> ELSE <<>>,
         !.srv[c].pc = CASE d.status = "ok"    -> "broadcast"
                         [] d.status = "error" -> "recv"
                         [] d.status = "hangs" -> "hung"]
  /\ UNCHANGED <<codec, call, lock, last, sent, rcvd, ncalls, io>>

\* broadcast(clients, payload, sender, lock): under the lock of the
\* registry, length_prefix + payload is sent to every client but the sender
broadcast(sender, f) ==
  [d \in Conns |-> IF d \in chat.clients /\ d # sender
                     THEN Append(chat.down[d], f) ELSE chat.down[d]]

\* client_thread, line 68: the payload that was decoded is broadcast
ServerBroadcast(c) ==
  /\ chat.srv[c].pc = "broadcast"
  /\ chat' = [chat EXCEPT
       !.down = broadcast(c, chat.srv[c].frame[1]),
       !.srv[c].frame = <<>>,
       !.srv[c].pc = "recv"]
  /\ UNCHANGED <<codec, call, lock, last, sent, rcvd, ncalls, io>>

\* receive_loop, lines 25-45: one frame is read from the socket and decoded
\* by the decoder of the client; a decode error is printed and the loop
\* continues
ClientReceive(c) ==
  /\ chat.cli[c].recv = "recv"
  /\ chat.down[c] # <<>>
  /\ \E f \in {Head(chat.down[c])} :
     \E d \in {decode_internal(chat.cli[c].decoder, f.payload)} :
       chat' = [chat EXCEPT
         !.down[c] = Tail(@),
         !.cli[c].decoder = d.t,
         !.cli[c].seen = Append(@, [from |-> f.from, n |-> f.n]),
         !.cli[c].recv = IF d.status = "hangs" THEN "hung" ELSE "recv"]
  /\ UNCHANGED <<codec, call, lock, last, sent, rcvd, ncalls, io>>

ChatNext ==
  \/ \E c \in Conns : Accept(c)
  \/ \E c \in Conns, line \in Lines : ClientSend(c, line)
  \/ \E c \in Conns, text \in ChatTexts : PeerSend(c, text)
  \/ \E c \in Conns, payload \in ChatRaw : PeerWrite(c, payload)
  \/ \E c \in Conns : ServerRecv(c)
  \/ \E c \in Conns : ServerBroadcast(c)
  \/ \E c \in Conns : ClientReceive(c)

ChatSpec == Init /\ [][ChatNext]_vars

\* ------------------------------------------------------ auxiliary notions
Idle(i) == call[i].pc = "idle" /\ ~lock[i]

\* the tree below node n, without node identities
RECURSIVE Shape(_, _, _)
Shape(t, n, fuel) ==
  IF n = None THEN <<>>
  ELSE IF fuel = 0 THEN <<"cycle">>
  ELSE <<t.key[n], t.weight[n], t.symbol[n], t.is_nyt[n], t.is_ncw[n],
         Shape(t, t.left[n], fuel - 1), Shape(t, t.right[n], fuel - 1)>>

\* the nodes reachable from n through left and right
RECURSIVE Below(_, _, _)
Below(t, n, fuel) ==
  IF n = None \/ fuel = 0 THEN {}
  ELSE {n} \cup Below(t, t.left[n], fuel - 1) \cup Below(t, t.right[n], fuel - 1)

TreeNodes(t) == Below(t, t.root, Len(t.key))

SameTree(t, u) ==
  /\ Shape(t, t.root, Len(t.key)) = Shape(u, u.root, Len(u.key))
  /\ DOMAIN t.leaves = DOMAIN u.leaves
  /\ \A w \in DOMAIN t.leaves :
       path_to_node(t, t.leaves[w]) = path_to_node(u, u.leaves[w])
  /\ t.next_key = u.next_key

\* ------------------------------------------------------------------ claims

\* C1: the first text a fresh "enc" is asked to encode is returned by the
\* fresh "dec" that decodes its payload: decode(encode(s)) == s.
RoundTrip ==
  (Len(sent) = 0 /\ call["enc"].pc = "encode")
    ~> (Len(rcvd) >= 1 /\ rcvd[1].status = "ok" /\ rcvd[1].text = sent[1].text)

\* C2: the i-th decode call of "dec" returns exactly the i-th text "enc"
\* encoded, for every i.
Statefulness ==
  \A k \in 1..Len(rcvd) :
    rcvd[k].status = "ok" /\ rcvd[k].text = sent[k].text

\* C3: when "dec" has decoded every payload "enc" has produced and neither
\* is inside a call, the two trees are identical (shape, weights, keys,
\* words, word index).
LockstepTrees ==
  (Idle("enc") /\ Idle("dec") /\ Len(rcvd) = Len(sent))
    => SameTree(codec["enc"], codec["dec"])

\* C4: every call that has taken the lock eventually completes and
\* releases it.
Termination == \A i \in Instances : lock[i] ~> ~lock[i]

\* C5: a decode call of "dec" consumes exactly as many tokens as "enc"
\* emitted for that payload; padding bits are not decoded as tokens.
PaddingNeverDecoded ==
  \A k \in 1..Len(rcvd) :
    rcvd[k].status = "ok" => rcvd[k].ntok = Len(Tokens(sent[k].text))

\* C6: after every completed call every internal node's weight is the sum
\* of the weights of its two children.
WeightAdditivity ==
  \A i \in Instances :
    Idle(i) =>
      \A n \in NodesOf(codec[i]) :
        ~is_leaf(codec[i], n) =>
          codec[i].weight[n] =
            codec[i].weight[codec[i].left[n]] + codec[i].weight[codec[i].right[n]]

\* C6 witness: completed calls have left a tree of at least seven nodes
\* whose root has weight 4 or more and in which a swap has moved the NCW
\* leaf away from the root.
WeightAdditivityWitness ==
  \E i \in Instances :
    /\ Idle(i)
    /\ Len(codec[i].key) >= 7
    /\ codec[i].weight[codec[i].root] >= 4
    /\ codec[i].parent[codec[i].ncw] # codec[i].root

\* the leaves of the tree of t that are neither NYT nor NCW
WordLeaves(t) ==
  {n \in TreeNodes(t) : is_leaf(t, n) /\ ~t.is_nyt[n] /\ ~t.is_ncw[n]}

LeafSetOf(t) ==
  /\ {n \in TreeNodes(t) : is_leaf(t, n) /\ t.is_nyt[n]} = {t.nyt}
  /\ {n \in TreeNodes(t) : is_leaf(t, n) /\ t.is_ncw[n]} = {t.ncw}
  /\ \A n \in WordLeaves(t) : t.symbol[n] \in DOMAIN t.leaves
  /\ \A m, n \in WordLeaves(t) : m # n => t.symbol[m] # t.symbol[n]
  /\ \A w \in DOMAIN t.leaves :
       t.leaves[w] \in TreeNodes(t) /\ is_leaf(t, t.leaves[w])

\* C7: in every reachable state the tree has exactly one NYT leaf (the
\* instance's NYT pointer) and one NCW leaf, every other leaf carries a
\* distinct word of the word index, and every indexed word is a leaf
\* reachable from the root.
LeafSet == \A i \in Instances : LeafSetOf(codec[i])

\* the leaf set between calls only
LeafSetIdle == \A i \in Instances : Idle(i) => LeafSetOf(codec[i])

StructureOf(t) ==
  /\ \A n \in NodesOf(t) :
       /\ (t.left[n] = None) = (t.right[n] = None)
       /\ n # t.root =>
            /\ t.parent[n] # None
            /\ t.left[t.parent[n]] = n \/ t.right[t.parent[n]] = n
       /\ is_ancestor(t, t.root, n) = IF n = t.root THEN "no" ELSE "yes"
  /\ t.parent[t.root] = None

\* C8: in every reachable state every non-leaf has two children, every
\* non-root node has a parent that points back to it, the root has no
\* parent, and the parent pointers of every node lead to the root.
StructuralIntegrity == \A i \in Instances : StructureOf(codec[i])

\* the structure between calls only
StructuralIntegrityIdle == \A i \in Instances : Idle(i) => StructureOf(codec[i])

\* C9: no two nodes of a tree share a key.
KeyUniqueness ==
  \A i \in Instances :
    \A m, n \in NodesOf(codec[i]) : m # n => codec[i].key[m] # codec[i].key[n]

\* the call in progress on i has the empty text or the empty byte string
\* as its argument
EmptyCall(i) == call[i].op # "none" /\ InputOf(i) = <<>>

\* C10: encode("") returns b"" and decode(b"") returns "", in its next step,
\* and the call leaves tree, word index and key counter as they were.
EmptyInput ==
  [][\A i \in Threads :
       /\ (call[i].pc = "idle" /\ call'[i].pc # "idle") =>
            codec'[InstanceOf(i)] = codec[InstanceOf(i)]
       /\ (EmptyCall(i) /\ call'[i] # call[i]) =>
            /\ call'[i].pc = "idle"
            /\ last'[InstanceOf(i)].status = "ok"
            /\ last'[InstanceOf(i)].value = <<>>
            /\ codec'[InstanceOf(i)] = codec[InstanceOf(i)]]_vars

\* C10 witness: encode("") has returned on "enc" and decode(b"") on "dec",
\* both on trees that already hold a word.
EmptyInputWitness ==
  /\ Idle("enc") /\ last["enc"].op = "encode" /\ last["enc"].input = <<>>
  /\ Idle("dec") /\ last["dec"].op = "decode" /\ last["dec"].input = <<>>
  /\ Len(codec["enc"].key) > 3
  /\ Len(codec["dec"].key) > 3

\* ------------------------------------------------- bit strings, by position
\* the eight bits of a byte, most significant first
BitsOfByte(b) == [k \in 1..8 |-> (b \div 2 ^ (8 - k)) % 2]

RECURSIVE BitsOfBytes(_)
BitsOfBytes(data) ==
  IF data = <<>> THEN <<>>
  ELSE BitsOfByte(Head(data)) \o BitsOfBytes(Tail(data))

\* the bits a writer holds: its whole bytes, then the bits of the byte in
\* progress
WrittenBits(w) ==
  BitsOfBytes(w.buffer) \o
    [k \in 1..w.filled |-> (w.current \div 2 ^ (w.filled - k)) % 2]

\* bits followed by zero bits up to the next multiple of 8
PadToByte(bits) == bits \o [k \in 1..((8 - (Len(bits) % 8)) % 8) |-> 0]

\* the node reached from node by taking the children bits names (1 = right)
RECURSIVE Follow(_, _, _)
Follow(t, node, bits) ==
  IF bits = <<>> \/ node = None THEN node
  ELSE Follow(t, IF Head(bits) = 1 THEN t.right[node] ELSE t.left[node], Tail(bits))

Alpha == <<"a", "l", "p", "h", "a">>

\* thread i is about to emit a word that is not in the word index
EmitsNewWord(i) ==
  /\ call[i].pc = "encode"
  /\ call[i].tokens # <<>>
  /\ Head(call[i].tokens) \notin DOMAIN codec[InstanceOf(i)].leaves

\* C11: a step that emits a word not in the word index leaves the writer
\* byte-aligned, holding what it held before, then the bit path from the
\* root to the NCW leaf, zero bits up to a byte boundary, the byte length of
\* the word as two bytes (high byte first) and the bytes of the word; the
\* first call on an instance, with the text "alpha", returns the bytes
\* 80 00 05 61 6c 70 68 61.
EscapeFormat ==
  [][\A i \in Threads :
       /\ (EmitsNewWord(i) /\ call'[i].pc = "increment") =>
            LET t      == codec[InstanceOf(i)]
                raw    == StrEncode(Head(call[i].tokens))
                before == WrittenBits(call[i].writer)
                after  == WrittenBits(call'[i].writer)
                tail   == 16 + 8 * Len(raw)
            IN /\ call'[i].writer.filled = 0
               /\ Len(after) >= Len(before) + tail
               /\ SubSeq(after, Len(after) - tail + 1, Len(after)) =
                    BitsOfByte(Len(raw) \div 256) \o BitsOfByte(Len(raw) % 256)
                      \o BitsOfBytes(raw)
               /\ \E n \in 0..(Len(after) - tail - Len(before)) :
                    LET path == SubSeq(after, Len(before) + 1, Len(before) + n)
                    IN /\ Follow(t, t.root, path) = t.ncw
                       /\ SubSeq(after, 1, Len(after) - tail) =
                            PadToByte(before \o path)
       /\ (call[i].op = "encode" /\ call[i].tok = Alpha
             /\ ncalls[InstanceOf(i)] = 1 /\ call'[i].pc = "idle") =>
            /\ last'[InstanceOf(i)].status = "ok"
            /\ last'[InstanceOf(i)].value = <<128, 0, 5, 97, 108, 112, 104, 97>>]_vars

\* C11 witness: "alpha" was the first text "enc" encoded.
EscapeFormatWitness ==
  /\ Len(sent) >= 1
  /\ sent[1].text = Alpha
  /\ sent[1].payload = <<128, 0, 5, 97, 108, 112, 104, 97>>
  /\ Alpha \in DOMAIN codec["enc"].leaves

\* thread th is inside a call of encode or decode
InCall(th) == call[th].pc # "idle"

\* C12: the calls on one instance run one at a time: at most one thread is
\* inside a call on an instance, that thread holds the instance's lock from
\* the first step of the call to its last, no other thread of the instance
\* takes a step meanwhile, and tree, word index and key counter change only
\* in the steps of the call in progress.
Atomicity ==
  [][\A i \in Instances :
       LET users == {th \in Threads : InstanceOf(th) = i}
       IN /\ Cardinality({th \in users : call'[th].pc # "idle"}) <= 1
          /\ lock'[i] = (\E th \in users : call'[th].pc # "idle")
          /\ \A th \in users :
               InCall(th) =>
                 /\ lock[i]
                 /\ \A other \in users \ {th} : call'[other] = call[other]
                 /\ call'[th].pc # "idle" => lock'[i]
          /\ codec'[i] # codec[i] =>
               \E th \in users : InCall(th) /\ call'[th] # call[th]]_vars

\* C12 witness: the second thread of the instance "any" is inside a call,
\* on a tree that earlier calls have changed, while the first thread waits.
AtomicityWitness ==
  /\ InCall("any2")
  /\ ~InCall("any")
  /\ lock["any"]
  /\ ncalls["any"] >= 3
  /\ Len(codec["any"].key) >= 5
  /\ call["any2"].pc = "increment"

\* the bits a reader has not read yet
RemainingBits(r) ==
  SubSeq(BitsOfBytes(r.data), r.byte_pos * 8 + r.bit_pos + 1, 8 * Len(r.data))

\* a walk from node that takes one bit per internal node uses up bits
\* before it reaches a leaf
RECURSIVE WalkRunsOut(_, _, _)
WalkRunsOut(t, node, bits) ==
  IF node = None \/ is_leaf(t, node) THEN FALSE
  ELSE IF bits = <<>> THEN TRUE
  ELSE WalkRunsOut(t, IF Head(bits) = 1 THEN t.right[node] ELSE t.left[node],
                   Tail(bits))

\* the whole bytes left to a reader once the rest of a byte in progress is
\* skipped
BytesLeft(r) == Len(r.data) - r.byte_pos - (IF r.bit_pos = 0 THEN 0 ELSE 1)

\* the next walk of the decode call of thread i would run out of bits
PathTruncated(i) ==
  /\ call[i].pc = "decode"
  /\ has_bits(call[i].reader)
  /\ WalkRunsOut(codec[InstanceOf(i)], codec[InstanceOf(i)].root,
                 RemainingBits(call[i].reader))

\* thread i is about to read a length header of which less than two bytes
\* are left
HeaderTruncated(i) ==
  /\ call[i].pc = "raw"
  /\ BytesLeft(call[i].reader) < 2

\* thread i is about to read a length header that announces more bytes
\* than are left after it
RawTruncated(i) ==
  /\ call[i].pc = "raw"
  /\ BytesLeft(call[i].reader) >= 2
  /\ LET r == call[i].reader
         p == Len(r.data) - BytesLeft(r)
     IN r.data[p + 1] * 256 + r.data[p + 2] > BytesLeft(r) - 2

\* C13: when the bits run out in the middle of a walk from the root to a
\* leaf, or the length header after an NCW path is incomplete, or fewer
\* bytes are left than the header announces, the next step of the decode
\* call ends it with an error and no text is returned.
TruncationErrors ==
  [][\A i \in Threads :
       ((PathTruncated(i) \/ HeaderTruncated(i) \/ RawTruncated(i))
          /\ call'[i] # call[i]) =>
         /\ call'[i].pc = "idle"
         /\ last'[InstanceOf(i)].op = "decode"
         /\ last'[InstanceOf(i)].status = "error"
         /\ last'[InstanceOf(i)].value = <<>>
         /\ InstanceOf(i) = "dec" =>
              /\ Len(rcvd') = Len(rcvd) + 1
              /\ rcvd'[Len(rcvd')].status = "error"]_vars

\* C13 witness: decode(b"\x80\x00\x01") has raised on an instance whose
\* tree holds no word: the path 1 leads to NCW, the header announces one
\* byte and none is left.
TruncationErrorsWitness ==
  \E i \in Instances :
    /\ Idle(i)
    /\ last[i].op = "decode"
    /\ last[i].input = <<128, 0, 1>>
    /\ last[i].status = "error"
    /\ Len(codec[i].key) = 3

\* thread i raises in this step
Raises(i) ==
  /\ InCall(i)
  /\ call'[i].pc = "idle"
  /\ last'[InstanceOf(i)].status = "error"

\* C14: a call that raises returns nothing and releases the lock, and the
\* instance is left exactly as it was at the point of failure: whatever the
\* earlier steps of the call have inserted or incremented stays, also the
\* increment of NCW made before a truncated header was read.
NoRollback ==
  [][\A i \in Threads :
       Raises(i) =>
         /\ ~lock'[InstanceOf(i)]
         /\ last'[InstanceOf(i)].value = <<>>
         /\ last'[InstanceOf(i)].input = InputOf(i)
         /\ sent' = sent
         /\ InstanceOf(i) = "dec" => rcvd'[Len(rcvd')].text = <<>>
         /\ codec'[InstanceOf(i)] = codec[InstanceOf(i)]
         /\ call[i].pc = "raw" =>
              codec'[InstanceOf(i)].weight[codec[InstanceOf(i)].ncw] >= 1]_vars

\* C14 witness: on one instance a decode call has raised at a truncated
\* header (NCW has weight 2 although only one word was ever decoded) and the
\* last call, encode of "a" followed by a word of 2 ** 16 bytes, has raised
\* after it inserted the separator.
NoRollbackWitness ==
  \E i \in Instances :
    /\ Idle(i)
    /\ last[i].op = "encode"
    /\ last[i].input = <<"a", " ", LongRun>>
    /\ last[i].status = "error"
    /\ DOMAIN codec[i].leaves = {<<"a">>, <<" ">>}
    /\ codec[i].weight[codec[i].ncw] = 2

\* thread i is about to run an iteration of the loop of _increment_weight
\* that ends
AtWalkNode(i) ==
  /\ call[i].pc = "increment"
  /\ call[i].node # None
  /\ ~Stuck(i)

\* C15: at every node v an increment walk visits, the candidate h is a node
\* of v's weight whose key is the greatest among all nodes of the tree of
\* that weight, and it is v itself unless its key is greater than v's.
SwapCandidate ==
  \A i \in Threads :
    AtWalkNode(i) =>
      LET t == codec[InstanceOf(i)]
          v == call[i].node
          h == find_highest_node_in_block(t, v)
      IN /\ t.weight[h] = t.weight[v]
         /\ \A n \in TreeNodes(t) :
              t.weight[n] = t.weight[v] => t.key[n] <= t.key[h]
         /\ h # v => t.key[h] > t.key[v]

\* C16: the candidate found for a node v is never a proper descendant of v,
\* and the nodes a walk swaps are never ancestor and descendant of each
\* other.
NoSwapInsideSubtree ==
  \A i \in Threads :
    AtWalkNode(i) =>
      LET t == codec[InstanceOf(i)]
          v == call[i].node
          h == find_highest_node_in_block(t, v)
      IN /\ is_ancestor(t, v, h) # "yes"
         /\ SwapWanted(t, v, h) =>
              is_ancestor(t, v, h) # "yes" /\ is_ancestor(t, h, v) # "yes"

\* C17: an iteration of the walk at v whose candidate h is neither v nor
\* parent nor child of v (and neither is the root) puts h in the slot v had
\* under v's parent and v in the slot h had under h's parent, sets both
\* parent pointers, and changes no key, symbol or child of v or h and no
\* weight but v's; also when v and h are siblings.
SwapEffect ==
  [][\A i \in Threads :
       (AtWalkNode(i) /\ codec'[InstanceOf(i)] # codec[InstanceOf(i)]) =>
         LET t  == codec[InstanceOf(i)]
             u  == codec'[InstanceOf(i)]
             v  == call[i].node
             h  == find_highest_node_in_block(t, v)
             pv == t.parent[v]
             ph == t.parent[h]
         IN (SwapWanted(t, v, h) /\ pv # None /\ ph # None) =>
              /\ IF t.left[pv] = v THEN u.left[pv] = h ELSE u.right[pv] = h
              /\ IF t.left[ph] = h THEN u.left[ph] = v ELSE u.right[ph] = v
              /\ u.parent[v] = ph
              /\ u.parent[h] = pv
              /\ u.key = t.key
              /\ u.symbol = t.symbol
              /\ u.weight = [t.weight EXCEPT ![v] = @ + 1]
              /\ u.left[v] = t.left[v] /\ u.right[v] = t.right[v]
              /\ u.left[h] = t.left[h] /\ u.right[h] = t.right[h]]_vars

\* thread i inserts a word in this step: the call of _insert_new_word up to
\* its _increment_weight
Inserts(i) ==
  /\ call'[i].pc = "increment"
  /\ EmitsNewWord(i) \/ call[i].pc = "raw"

\* C18: a step that inserts a word w not in the index adds exactly two
\* nodes, a leaf for w with the key the counter held and a fresh NYT leaf
\* with the next key, both of weight 0, as right and left child of the
\* former NYT leaf, which stays where it was and is no NYT any more; the
\* counter advances by 2, the index maps w to its leaf and keeps its other
\* entries, the NYT pointer is the fresh NYT; no other step adds a node and
\* no step removes one.
NewWordInsertion ==
  [][\A i \in Threads :
       LET t == codec[InstanceOf(i)]
           u == codec'[InstanceOf(i)]
           w == call'[i].tok
           word == IF call[i].op = "encode" THEN Head(call[i].tokens) ELSE w
           leaf == Len(t.key) + 1
           nyt  == Len(t.key) + 2
           old  == t.nyt
       IN /\ Len(u.key) >= Len(t.key)
          /\ (InCall(i) /\ ~Inserts(i)) => Len(u.key) = Len(t.key)
          /\ (Inserts(i) /\ word \notin DOMAIN t.leaves) =>
               /\ Len(u.key) = Len(t.key) + 2
               /\ u.symbol[leaf] = word /\ u.symbol[nyt] = NoSymbol
               /\ u.key[leaf] = t.next_key /\ u.key[nyt] = t.next_key + 1
               /\ u.next_key = t.next_key + 2
               /\ u.weight[leaf] = 0 /\ u.weight[nyt] = 0
               /\ is_leaf(u, leaf) /\ is_leaf(u, nyt)
               /\ u.is_nyt[nyt] /\ ~u.is_nyt[leaf] /\ ~u.is_nyt[old]
               /\ ~u.is_ncw[nyt] /\ ~u.is_ncw[leaf]
               /\ u.nyt = nyt
               /\ u.left[old] = nyt /\ u.right[old] = leaf
               /\ u.parent[nyt] = old /\ u.parent[leaf] = old
               /\ DOMAIN u.leaves = DOMAIN t.leaves \cup {word}
               /\ u.leaves[word] = leaf
               /\ \A x \in DOMAIN t.leaves : u.leaves[x] = t.leaves[x]
               /\ u.ncw = t.ncw /\ u.root = t.root
               /\ \A n \in NodesOf(t) :
                    /\ u.key[n] = t.key[n]
                    /\ u.weight[n] = t.weight[n]
                    /\ u.symbol[n] = t.symbol[n]
                    /\ u.parent[n] = t.parent[n]
                    /\ u.is_ncw[n] = t.is_ncw[n]
                    /\ n # old =>
                         /\ u.left[n] = t.left[n]
                         /\ u.right[n] = t.right[n]
                         /\ u.is_nyt[n] = t.is_nyt[n]]_vars

\* C18 witness: an encode call has just inserted a second word, as leaf 6
\* with key 5 under the NYT leaf of the first insertion.
NewWordInsertionWitness ==
  \E i \in Threads :
    /\ call[i].pc = "increment"
    /\ call[i].op = "encode"
    /\ call[i].node = 6
    /\ Len(codec[InstanceOf(i)].key) = 7
    /\ codec[InstanceOf(i)].key[6] = 5
    /\ codec[InstanceOf(i)].weight[6] = 0
    /\ codec[InstanceOf(i)].nyt = 7
    /\ codec[InstanceOf(i)].parent[6] = 5

\* the leaf a walk from node reaches with bits, None when the bits run out
RECURSIVE WalkLeaf(_, _, _)
WalkLeaf(t, node, bits) ==
  IF node = None THEN None
  ELSE IF is_leaf(t, node) THEN node
  ELSE IF bits = <<>> THEN None
  ELSE WalkLeaf(t, IF Head(bits) = 1 THEN t.right[node] ELSE t.left[node],
                Tail(bits))

\* the number of bits a reader has consumed
BitsRead(r) == r.byte_pos * 8 + r.bit_pos

RECURSIVE Layout(_)
Layout(ops) ==
  IF ops = <<>> THEN <<>>
  ELSE LET op  == ops[Len(ops)]
           pre == Layout(SubSeq(ops, 1, Len(ops) - 1))
       IN CASE op.kind = "bit"    -> pre \o <<op.val>>
            [] op.kind = "bits"   -> pre \o op.val
            [] op.kind = "uint16" ->
                 PadToByte(pre) \o BitsOfByte(op.val \div 256)
                   \o BitsOfByte(op.val % 256)
            [] op.kind = "bytes"  -> PadToByte(pre) \o BitsOfBytes(op.val)

\* C20: a reader over get_data() that makes the matching calls in the order
\* of the calls made on the writer gets back every bit, integer and byte
\* string written; the writer holds the bits most significant first,
\* get_data() adds zero bits up to a byte boundary, and after each read the
\* reader has consumed exactly the bits the writer held after the matching
\* call, padding included.
BitRoundTrip ==
  /\ \A k \in 1..Len(io.got) : io.got[k].ok /\ io.got[k].val = io.ops[k].val
  /\ io.phase = "write" => WrittenBits(io.writer) = Layout(io.ops)
  /\ io.phase = "read" =>
       /\ BitsOfBytes(io.reader.data) = PadToByte(Layout(io.ops))
       /\ BitsRead(io.reader) = Len(Layout(SubSeq(io.ops, 1, Len(io.got))))

\* C20 witness: a bit, an integer and three bits were written and all
\* three read back: the reader skipped the seven padding bits after the
\* first bit and read the last three bits from a padded byte.
BitRoundTripWitness ==
  /\ io.phase = "read"
  /\ Len(io.got) = 3
  /\ io.ops[1] = [kind |-> "bit", val |-> 1]
  /\ io.ops[2] = [kind |-> "uint16", val |-> 258]
  /\ io.ops[3] = [kind |-> "bits", val |-> <<1, 0, 1>>]
  /\ io.reader.data = <<128, 1, 2, 160>>

\* the frames in log come from one connection, and so from the one encoder
\* of its peer, in the order in which that peer wrote them
OneEncoderInOrder(log) ==
  \A j, k \in 1..Len(log) :
    /\ log[j].from = log[k].from
    /\ j < k => log[j].n < log[k].n

\* every decoder of the transport, the one of each thread of the server and
\* the inbound one of each client, is paired with one encoder
PairedDecoders(ch) ==
  \A c \in Conns :
    /\ OneEncoderInOrder(ch.srv[c].seen)
    /\ OneEncoderInOrder(ch.cli[c].seen)

\* the thread of connection c is done with the frame it received: it goes
\* back to reading, after the broadcast or after a decode error
DoneWithFrame(c) ==
  /\ chat'.srv[c].pc = "recv"
  /\ \/ chat.srv[c].pc = "broadcast"
     \/ Len(chat'.srv[c].seen) > Len(chat.srv[c].seen)

\* the frame the thread of connection c is handling
FrameInHand(c) ==
  IF chat.srv[c].pc = "broadcast" THEN chat.srv[c].frame[1] ELSE Head(chat.up[c])

\* the frame a thread of the server is done with was sent, as it was
\* received, to every client of the registry but its sender
ForwardsEach ==
  \A c \in Conns :
    DoneWithFrame(c) =>
      \A d \in chat.clients \ {c} :
        chat'.down[d] = Append(chat.down[d], FrameInHand(c))

\* C21: the server forwards each payload it receives, unchanged, to every
\* connected client other than the sender, and every decoder of the
\* transport (the decoder of each thread of the server, the inbound decoder
\* of each client) is only ever handed the frames of one encoder, in the
\* order in which that encoder produced them, whoever sends.
TransportPairing == [][ForwardsEach /\ PairedDecoders(chat')]_vars

====
